---- MODULE Spec2Model ----
(***************************************************************************)
(* Model of package exiftool (pkg/exiftool/exiftool.go): one ExifTool      *)
(* session shared by concurrent callers.  A caller runs Version,           *)
(* ReadMetadata or WriteMetadata; each of them goes through eval, which    *)
(* drives the guest through callWithAsyncify.  The guest module is not     *)
(* part of the package: every call into it is a nondeterministic choice    *)
(* over the outcomes its interface allows (return, trap, asyncify state).  *)
(* One action models the statements a caller runs between two points at   *)
(* which another goroutine can see or change what they work on (the mutex, *)
(* the capture buffers, the guest, the staged files, the host files).      *)
(***************************************************************************)
EXTENDS Integers, Sequences, FiniteSets, TLC

(* ------------------------------ bounds --------------------------------- *)

\* Calls started on the session over one behaviour.
MaxCalls == 2

\* Invocations of the exported function inside one callWithAsyncify: the
\* guest stub completes or traps on invocation MaxInvoke at the latest.
MaxInvoke == 2

\* Failures of the environment (a guest call that traps, a host file write
\* that fails) over one behaviour.
MaxFaults == 1

\* The goroutines that share the session.
Callers == {"c1", "c2"}

(* ------------------------- program constants --------------------------- *)

dataAddr == 16

dataStart == 24

dataEnd == 1048576

\* The values asyncify_get_state is switched on.
NORMAL == 0

UNWINDING == 1

REWINDING == 2

\* A state word that is none of the three cases of the switch.
OtherState == REWINDING + 1

\* Bytes of the program text of each operation (the Go string literals).
VersionCodeLen == 52

ReadCodeLen == 350

\* The write template with an empty mapping "{}" in place of %s.
WriteCodeLen == 263

CodeLen(op) ==
    CASE op = "Version" -> VersionCodeLen
      [] op = "Read"    -> ReadCodeLen
      [] op = "Write"   -> WriteCodeLen

\* codeBytes := append([]byte(code), 0)
PayloadLen(op) == CodeLen(op) + 1

(* --------------------------- the environment --------------------------- *)

\* Size of the guest's linear memory, and the addresses malloc hands out: an
\* address in the heap and, when the allocator fails without trapping, 0 (its
\* null) or an address so close to the end of memory that the payload does
\* not fit (mem.Write fails).
MemSize == 4 * dataEnd

HeapBase == 2 * dataEnd

MallocAddrs == {0, HeapBase, MemSize - 1}

\* Host paths the callers pass; "" stands for "no destination given".
Paths == {"a", "b"}

\* The file a WriteMetadata call edits, and where it asks the result to go.
SrcPaths == {"a", "b"}

DstPaths == {"", "b"}

NoFile == <<"nofile">>

\* What a failed os.WriteFile can leave behind: the file created or
\* truncated, with none or part of the data.
Partial == <<"partial">>

Orig(path) == <<"orig", path>>

\* The bytes the guest writes to /tmp/output while it runs call id.
OutBytes(id) == <<"out", id>>

\* What the program of an operation prints when it runs to its end, as the
\* chunks in which the guest's stdio hands it to the host; <<>> is a program
\* that died before its print statement.
Outcomes(op) ==
    CASE op = "Version" -> {<<"ver">>}
      [] op = "Read"    -> {<<"{", "}">>, <<>>}
      [] op = "Write"   -> {<<"0">>, <<"1">>, <<"2">>, <<>>}

\* The control record as an unwinding guest leaves it: the first word moved
\* past the stack it has saved.
UnwoundRecord == <<dataStart + 8, dataEnd>>

(* ------------------------------- state --------------------------------- *)

VARIABLES
    mu,         \* et.mu: "free" or the caller that holds it
    stdout,     \* et.stdout: chunks, each tagged with the call that printed it
    stderr,     \* et.stderr
    dataRec,    \* the 8 bytes at dataAddr: <<first word, second word>>
    gstate,     \* what asyncify_get_state returns
    hasFlush,   \* et.flushFn != nil
    payloads,   \* addresses obtained from malloc and not yet passed to free
    fsInput,    \* <tmpDir>/input
    fsOutput,   \* <tmpDir>/output
    hostfs,     \* the host files the callers name
    nextId,     \* calls started so far
    faults,     \* environment failures so far
    pc,         \* each caller's position
    call,       \* each caller's current call: id, op, srcPath, dstPath
    loc,        \* each caller's local variables
    g,          \* the guest's run of each caller's program
    trace,      \* each caller's calls across the host/guest boundary, in order
    failed,     \* each caller's guest calls whose error the code did not look at
    ret,        \* what each caller's last call returned
    trip,       \* one tag value on its way through a write and a read
    life,       \* a session from NewWithContext to Close
    cli         \* a run of the command line program

\* What no call on the session changes.
fixed == <<hasFlush, trip, life, cli>>

vars == <<mu, stdout, stderr, dataRec, gstate, fixed, payloads, fsInput,
          fsOutput, hostfs, nextId, faults, pc, call, loc, g, trace, failed, ret>>

session == <<mu, stdout, stderr, dataRec, gstate, fixed, payloads>>

files == <<fsInput, fsOutput, hostfs>>

(* ------------------------------ helpers -------------------------------- *)

Tok(id, v) == [call |-> id, val |-> v]

\* The chunks of text as the call id prints them.
Tag(id, text) == [i \in 1..Len(text) |-> Tok(id, text[i])]

\* The characters of a captured text, without their history tags.
Vals(text) == [i \in 1..Len(text) |-> text[i].val]

NoCall == [id |-> 0, op |-> "none", src |-> "", dst |-> ""]

\* A result: kind is "ok", "err" or "panic", val the value or the error's
\* message, text the captured text it carries.
Result(kind, val, text) == [kind |-> kind, val |-> val, text |-> text]

NoResult == Result("none", "", <<>>)

NoLoc ==
    [data |-> NoFile, codePtr |-> 0, results |-> "nil", err |-> "none",
     output |-> <<>>, outputData |-> NoFile, panicking |-> FALSE,
     staged |-> FALSE, wroteDest |-> FALSE, deferFree |-> FALSE,
     pending |-> NoResult]

NoRun == [want |-> <<>>, emitted |-> 0, ninv |-> 0]

NoRet ==
    [res |-> NoResult, staged |-> FALSE, output |-> <<>>, wroteDest |-> FALSE,
     inputLeft |-> NoFile, outputLeft |-> NoFile]

\* The environment fails once more / does not fail in this step.
Fault == faults < MaxFaults /\ faults' = faults + 1

NoFault == faults' = faults

\* binary.LittleEndian.PutUint32(dataBuffer[0:4], dataStart); ...[4:8], dataEnd
InitialRecord == <<dataStart, dataEnd>>

\* mem.Write(offset, bytes) succeeds iff the range lies inside the memory.
MemWriteOK(addr, len) == addr + len <= MemSize

\* json.Unmarshal into map[string]any accepts a complete JSON object only.
JSONValid(text) == Vals(text) = <<"{", "}">>

(* ------------------------------- Init ---------------------------------- *)

\* What _initialize and zeroperl_init may have printed: the capture buffers
\* are attached when the module is instantiated and NewWithContext does not
\* reset them.  Calls are numbered from 1; 0 marks the construction.
InitOutputs == {<<>>, Tag(0, <<"init">>)}

\* The session as NewWithContext returns it: the control record written,
\* zeroperl_init driven to completion, nothing staged.
Constructed ==
    /\ mu = "free"
    /\ stdout \in InitOutputs
    /\ stderr = <<>>
    /\ dataRec = InitialRecord
    /\ gstate = NORMAL
    /\ hasFlush \in BOOLEAN
    /\ payloads = {}
    /\ fsInput = NoFile
    /\ fsOutput = NoFile
    /\ hostfs = [f \in Paths |-> IF f = "a" THEN Orig(f) ELSE NoFile]
    /\ nextId = 0
    /\ faults = 0
    /\ pc = [p \in Callers |-> "idle"]
    /\ call = [p \in Callers |-> NoCall]
    /\ loc = [p \in Callers |-> NoLoc]
    /\ g = [p \in Callers |-> NoRun]
    /\ trace = [p \in Callers |-> <<>>]
    /\ failed = [p \in Callers |-> {}]
    /\ ret = [p \in Callers |-> NoRet]

\* No tag value is followed.
NoTrip == [pc |-> "none"]

\* No construction is followed: the session is the constructed one.
NoLife == [pc |-> "none"]

\* No run of the command line program is followed.
NoCli == [pc |-> "none"]

Init == Constructed /\ trip = NoTrip /\ life = NoLife /\ cli = NoCli

(* ------------------------ the public operations ------------------------ *)

\* A caller that is not inside a call starts one.  The callers are
\* interchangeable: the one that makes the first call is named c1.
Begin(p, op, src, dst, next) ==
    /\ pc[p] \in {"idle", "done"}
    /\ nextId = 0 => p = "c1"
    /\ nextId < MaxCalls
    /\ nextId' = nextId + 1
    /\ call' = [call EXCEPT ![p] = [id |-> nextId + 1, op |-> op, src |-> src, dst |-> dst]]
    /\ loc' = [loc EXCEPT ![p] = NoLoc]
    /\ g' = [g EXCEPT ![p] = NoRun]
    /\ trace' = [trace EXCEPT ![p] = <<>>]
    /\ failed' = [failed EXCEPT ![p] = {}]
    /\ ret' = [ret EXCEPT ![p] = NoRet]
    /\ pc' = [pc EXCEPT ![p] = next]
    /\ UNCHANGED <<session, files, faults>>

\* func (et *ExifTool) Version(): straight into eval.
Version(p) == Begin(p, "Version", "", "", "ev_lock")

\* func (et *ExifTool) ReadMetadata(filePath)
ReadMetadata(p) == \E src \in Paths : Begin(p, "Read", src, "", "stage")

\* func (et *ExifTool) WriteMetadata(srcPath, dstPath, tags)
WriteMetadata(p) ==
    \E src \in SrcPaths, dst \in DstPaths : Begin(p, "Write", src, dst, "stage")

\* func (et *ExifTool) SetTag(srcPath, dstPath, tag, value):
\* return et.WriteMetadata(srcPath, dstPath, map[string]any{tag: value})
SetTag(p) == WriteMetadata(p)

\* The call returns to its caller (or panics out of it) and its frame is gone;
\* ret records the result, what the call had captured and done, and the
\* staging slots as the call leaves them.
Return(p, res, inp, out) ==
    /\ ret' = [ret EXCEPT ![p] = [res |-> res, staged |-> loc[p].staged,
                                  output |-> loc[p].output,
                                  wroteDest |-> loc[p].wroteDest,
                                  inputLeft |-> inp, outputLeft |-> out]]
    /\ loc' = [loc EXCEPT ![p] = NoLoc]
    /\ pc' = [pc EXCEPT ![p] = IF res.kind = "panic" THEN "panicked" ELSE "done"]

\* The messages of the two staging errors, by operation.
ReadError(op) == IF op = "Write" THEN "failed to read source file" ELSE "failed to read file"

StageError(op) ==
    IF op = "Write" THEN "failed to write temp input file" ELSE "failed to write temp file"

\* A faulty variant of the staging: the source is taken to be readable.
SourceAssumed(p) == TRUE

\* os.ReadFile(path) returns the bytes of a file that exists.
SourceReadable(p) == hostfs[call[p].src] # NoFile

\* data, err := os.ReadFile(path); if err != nil { return ... };
\* os.WriteFile(et.tmpDir+"/input", data, 0644); if err != nil { return ... };
\* defer os.Remove(tmpFile).  When the write fails the function returns
\* before the defer statement and the file is as the failed write left it.
StageInput(p) ==
    /\ pc[p] = "stage"
    /\ \/ /\ ~SourceReadable(p)
          /\ NoFault
          /\ fsInput' = fsInput
          /\ Return(p, Result("err", ReadError(call[p].op), <<>>), fsInput, fsOutput)
       \/ /\ SourceReadable(p)
          /\ NoFault
          /\ fsInput' = hostfs[call[p].src]
          /\ loc' = [loc EXCEPT ![p].data = hostfs[call[p].src], ![p].staged = TRUE]
          /\ pc' = [pc EXCEPT ![p] = "ev_lock"]
          /\ ret' = ret
       \/ /\ SourceReadable(p)
          /\ Fault
          /\ \E left \in {fsInput, Partial} : fsInput' = left
          /\ Return(p, Result("err", StageError(call[p].op), <<>>), fsInput', fsOutput)
    /\ UNCHANGED <<session, fsOutput, hostfs, nextId, call, g, trace, failed>>

(* ---------------------- calls across the boundary ---------------------- *)

\* A call across the host/guest boundary is <<name, arguments, outcome>>.
Outcome == {"ok", "trap"}

TrapsIn(evs) == {i \in 1..Len(evs) : evs[i][3] = "trap"}

\* The caller makes the calls evs, one after the other.  odd counts the calls
\* among them that return something only a failing guest returns.  Errors of
\* calls named in unchecked are the ones the code does not look at.
Perform(p, evs, odd, unchecked) ==
    /\ faults + Cardinality(TrapsIn(evs)) + odd <= MaxFaults
    /\ faults' = faults + Cardinality(TrapsIn(evs)) + odd
    /\ trace' = [trace EXCEPT ![p] = @ \o evs]
    /\ failed' = [failed EXCEPT ![p] =
                    @ \cup ({evs[i][1] : i \in TrapsIn(evs)} \cap unchecked)]

\* What the asyncify entry points do to the guest's state word when they
\* return: stop_unwind and stop_rewind leave NORMAL, start_rewind REWINDING.
StateAfter(state, ev) ==
    IF ev[3] # "ok" THEN state
    ELSE CASE ev[1] = "stop_unwind"  -> NORMAL
           [] ev[1] = "start_rewind" -> REWINDING
           [] ev[1] = "stop_rewind"  -> NORMAL
           [] OTHER                  -> state

\* mem.Write(dataAddr, dataBuffer) puts the two words at the address.
RecordAfter(rec, ev) ==
    IF ev[1] = "write_record" /\ ev[2][1] = dataAddr THEN <<ev[2][2], ev[2][3]>> ELSE rec

RECURSIVE GuestAfter(_, _)
GuestAfter(state, evs) ==
    IF evs = <<>> THEN state ELSE GuestAfter(StateAfter(state, Head(evs)), Tail(evs))

RECURSIVE MemAfter(_, _)
MemAfter(rec, evs) ==
    IF evs = <<>> THEN rec ELSE MemAfter(RecordAfter(rec, Head(evs)), Tail(evs))

(* -------------------------------- eval --------------------------------- *)

\* A faulty variant of the mutex: Lock() returns at once, whoever holds it.
MutexNeverHeld == TRUE

\* et.mu.Lock() returns when nobody holds the mutex.
MutexFree == mu = "free"

\* et.mu.Lock(); defer et.mu.Unlock(); et.stdout.Reset(); et.stderr.Reset()
EvalEnter(p) ==
    /\ pc[p] = "ev_lock"
    /\ MutexFree
    /\ mu' = p
    /\ stdout' = <<>>
    /\ stderr' = <<>>
    /\ Perform(p, << <<"lock", <<>>, "ok">>, <<"reset", <<>>, "ok">> >>, 0, {})
    /\ pc' = [pc EXCEPT ![p] = "ev_marshal"]
    /\ UNCHANGED <<dataRec, gstate, fixed, payloads, files, nextId, call, loc, g, ret>>

\* A faulty variant of eval: the result of mem.Write is not looked at.
AfterWriteUnchecked(ok) == "cw_loop"

\* Where eval goes when mem.Write(codePtr, codeBytes) has returned ok.
AfterWrite(ok) == IF ok THEN "cw_loop" ELSE "ev_exit"

\* The bytes 16..23 of the program text of an operation, read as two
\* little-endian words: "ool; pri" of the Version program, "Tool;\nus" of the
\* read and write programs, which begin with "\nuse Image::ExifTool;\nuse".
CodeWords(op) ==
    IF op = "Version" THEN <<996962159, 1769107488>>
    ELSE <<1819242324, 1937050171>>

\* The bytes [addr, addr+len) share an address with the control record.
OverRecord(addr, len) == addr < dataAddr + 8 /\ addr + len > dataAddr

\* mem.Write(codePtr, codeBytes) on the control record: a payload that is
\* written from address 0 replaces the record by bytes of the program text.
RecordUnder(rec, addr, op, ok) ==
    IF ok /\ OverRecord(addr, PayloadLen(op)) THEN CodeWords(op) ELSE rec

\* results, err := et.mallocFn.Call(ctx, len(codeBytes)); on error return
\* "malloc failed"; codePtr := uint32(results[0]); defer et.freeFn.Call(ctx,
\* codePtr); if !mem.Write(codePtr, codeBytes) return "failed to write code".
EvalMarshal(p) ==
    /\ pc[p] = "ev_marshal"
    /\ \/ /\ Perform(p, << <<"malloc", <<PayloadLen(call[p].op)>>, "trap">> >>, 0, {})
          /\ loc' = [loc EXCEPT ![p].err = "malloc failed"]
          /\ payloads' = payloads
          /\ dataRec' = dataRec
          /\ pc' = [pc EXCEPT ![p] = "ev_exit"]
       \/ \E addr \in MallocAddrs \ payloads :
          LET ok == MemWriteOK(addr, PayloadLen(call[p].op))
          IN  /\ Perform(p, << <<"malloc", <<PayloadLen(call[p].op)>>, "ok">>,
                               <<"write", <<addr>>, IF ok THEN "ok" ELSE "fail">> >>,
                         IF addr = HeapBase THEN 0 ELSE 1, {})
              /\ payloads' = IF addr = 0 THEN payloads ELSE payloads \cup {addr}
              /\ dataRec' = RecordUnder(dataRec, addr, call[p].op, ok)
              /\ loc' = [loc EXCEPT ![p].codePtr = addr, ![p].deferFree = TRUE,
                           ![p].err = IF ok THEN "none" ELSE "failed to write code to memory"]
              /\ pc' = [pc EXCEPT ![p] = AfterWrite(ok)]
    /\ UNCHANGED <<mu, stdout, stderr, gstate, fixed, files, nextId,
                   call, g, ret>>

(* -------------------------- callWithAsyncify --------------------------- *)

\* What one invocation of zeroperl_eval makes of the guest's run of p's
\* program.  The invocation on which the program runs to its end (done)
\* settles what it has printed, w.  A guest with a flush entry point keeps
\* the text in its stdio buffer until it is flushed; a guest without one
\* hands it to the host when the program ends.
GuestRuns(p, w, done) ==
    IF done
    THEN /\ g' = [g EXCEPT ![p] = [want |-> w,
                                   emitted |-> IF hasFlush THEN 0 ELSE Len(w),
                                   ninv |-> @.ninv + 1]]
         /\ stdout' = stdout \o (IF hasFlush THEN <<>> ELSE Tag(call[p].id, w))
    ELSE /\ g' = [g EXCEPT ![p].ninv = @ + 1]
         /\ stdout' = stdout

\* The arguments eval passes: uint64(codePtr), 0, 0, 0.
EvalArgs(p) == <<loc[p].codePtr, 0, 0, 0>>

\* How an invocation of zeroperl_eval can end, seen from the host: the call's
\* outcome and result word, whether the program ran to its end (done) and
\* what it printed (w), the asyncify state and the control record the guest
\* leaves, the file <tmpDir>/output, and whether a sound guest does this (odd).
Invocation(out, res, done, w, state, rec, file, odd) ==
    [out |-> out, res |-> res, done |-> done, w |-> w, state |-> state,
     rec |-> rec, file |-> file, odd |-> odd, e |-> <<>>]

\* What a program that ran to its end may have written to standard error: a
\* program that printed nothing has died with a message, and the ExifTool
\* run of a read may warn.
ErrTexts(op, w) ==
    IF w = <<>> THEN {<<"died">>}
    ELSE IF op = "Read" THEN {<<>>, <<"warn">>}
    ELSE {<<>>}

Invocations(p) ==
    \* the invocation traps; a write may have created the output file
    {Invocation("trap", "nil", FALSE, <<>>, gstate, dataRec, f, 0) :
        f \in IF call[p].op = "Write" THEN {fsOutput, OutBytes(call[p].id)} ELSE {fsOutput}}
    \cup
    \* the guest unwinds: the result word means nothing
    {Invocation("ok", "junk", FALSE, <<>>, UNWINDING, UnwoundRecord, fsOutput, 0) :
        x \in IF g[p].ninv + 1 < MaxInvoke THEN {1} ELSE {}}
    \cup
    \* the program runs to its end
    UNION {{[Invocation("ok", "rc", TRUE, w, st, dataRec,
                        IF call[p].op = "Write" /\ w \in {<<"1">>, <<"2">>}
                        THEN OutBytes(call[p].id) ELSE fsOutput, 0)
                EXCEPT !.e = e] : e \in ErrTexts(call[p].op, w)} :
        w \in Outcomes(call[p].op),
        st \in {NORMAL} \cup (IF gstate = REWINDING THEN {REWINDING} ELSE {})}
    \cup
    \* the guest leaves a state word the switch has no case for
    {Invocation("ok", "junk", FALSE, <<>>, OtherState, dataRec, fsOutput, 1) :
        x \in IF g[p].ninv + 1 < MaxInvoke THEN {1} ELSE {}}

\* A faulty variant of the loop: the state is queried after a trapped
\* invocation too.
QueryAlways(out) == "query"

\* results, err := fn.Call(et.ctx, args...); if err != nil { return nil, err }
AfterCall(out) == IF out = "ok" THEN "query" ELSE "return"

\* A faulty variant of the loop: the results of the first invocation are
\* kept.
FirstResults(old, new) == IF old = "nil" THEN new ELSE old

\* results, err := fn.Call(et.ctx, args...): the value callWithAsyncify
\* holds as results after an invocation that returned new.
LatestResults(old, new) == new

\* A faulty variant of the handshake: the rewind is started before the
\* control record is reset.
UnwindStepsRewindFirst(su, sr) ==
    << <<"stop_unwind", <<>>, su>>,
       <<"start_rewind", <<dataAddr>>, sr>>,
       <<"write_record", <<dataAddr, dataStart, dataEnd>>, "ok">> >>

\* case 1: et.stopUnwind.Call(ctx); PutUint32(dataBuffer[0:4], dataStart);
\* PutUint32(dataBuffer[4:8], dataEnd); mem.Write(dataAddr, dataBuffer);
\* et.startRewind.Call(ctx, dataAddr).  The write of the record succeeded at
\* the same address when the session was built, and a memory never shrinks.
UnwindSteps(su, sr) ==
    << <<"stop_unwind", <<>>, su>>,
       <<"write_record", <<dataAddr, dataStart, dataEnd>>, "ok">>,
       <<"start_rewind", <<dataAddr>>, sr>> >>

\* case 2: et.stopRewind.Call(ctx)
RewindSteps(r) == << <<"stop_rewind", <<>>, r>> >>

\* switch state: the calls each case makes, for every way they can end.
SwitchSteps(state) ==
    CASE state = UNWINDING -> {UnwindSteps(su, sr) : su \in Outcome, sr \in Outcome}
      [] state = REWINDING -> {RewindSteps(r) : r \in Outcome}
      [] OTHER             -> {<<>>}

\* case 0 and case 2 return; case 1 and a state without a case go round the
\* for loop.
AfterSwitch(state) == IF state \in {NORMAL, REWINDING} THEN "ev_exit" ELSE "cw_loop"

\* The calls whose errors callWithAsyncify and eval drop.
Unchecked == {"stop_unwind", "start_rewind", "stop_rewind", "flush", "free"}

\* One round of the for loop of callWithAsyncify:
\*   results, err := fn.Call(et.ctx, args...); if err != nil { return nil, err }
\*   stateResults, _ := et.getState.Call(et.ctx); state := uint32(stateResults[0])
\*   switch state { case 0: return results, nil; case 1: ...; case 2: ...; return }
\* When getState fails, stateResults is nil and indexing it panics: the
\* deferred calls of eval run and the panic goes on.  A trapped invocation
\* makes eval return "eval failed".
CwLoop(p) ==
    /\ pc[p] = "cw_loop"
    /\ \E i \in Invocations(p) :
       LET callEv == <<"zeroperl_eval", EvalArgs(p), i.out>>
           res    == LatestResults(loc[p].results, i.res)
       IN  /\ GuestRuns(p, i.w, i.done)
           /\ fsOutput' = i.file
           /\ stderr' = IF i.out = "trap" THEN Append(stderr, Tok(call[p].id, "trap"))
                        ELSE stderr \o Tag(call[p].id, i.e)
           /\ \/ /\ AfterCall(i.out) = "return"
                 /\ Perform(p, <<callEv>>, i.odd, {})
                 /\ gstate' = i.state
                 /\ dataRec' = i.rec
                 /\ loc' = [loc EXCEPT ![p].results = "nil", ![p].err = "eval failed"]
                 /\ pc' = [pc EXCEPT ![p] = "ev_exit"]
              \/ /\ AfterCall(i.out) = "query"
                 /\ Perform(p, << callEv, <<"get_state", <<>>, "trap">> >>, i.odd, {})
                 /\ gstate' = i.state
                 /\ dataRec' = i.rec
                 /\ loc' = [loc EXCEPT ![p].results = "nil", ![p].panicking = TRUE]
                 /\ pc' = [pc EXCEPT ![p] = "ev_exit"]
              \/ /\ AfterCall(i.out) = "query"
                 /\ \E steps \in SwitchSteps(i.state) :
                       /\ Perform(p, << callEv, <<"get_state", <<i.state>>, "ok">> >> \o steps,
                                  i.odd, Unchecked)
                       /\ gstate' = GuestAfter(i.state, steps)
                       /\ dataRec' = MemAfter(i.rec, steps)
                 /\ loc' = [loc EXCEPT ![p].results = res]
                 /\ pc' = [pc EXCEPT ![p] = AfterSwitch(i.state)]
    /\ UNCHANGED <<mu, fixed, payloads, fsInput, hostfs, nextId, call, ret>>

(* ----------------------------- eval, end ------------------------------- *)

\* if et.flushFn != nil { et.flushFn.Call(et.ctx) }; return et.stdout.String(), nil:
\* what eval does when callWithAsyncify has returned without an error.
FinishSteps(p, r) ==
    IF loc[p].err = "none" /\ ~loc[p].panicking
    THEN (IF hasFlush THEN << <<"flush", <<>>, r>> >> ELSE <<>>)
            \o << <<"read_stdout", <<>>, "ok">> >>
    ELSE <<>>

\* What a flush that returns hands to the host: the text the guest's stdio
\* still holds.
Flushed(p, evs) ==
    IF \E i \in 1..Len(evs) : evs[i][1] = "flush" /\ evs[i][3] = "ok"
    THEN SubSeq(Tag(call[p].id, g[p].want), g[p].emitted + 1, Len(g[p].want))
    ELSE <<>>

\* A faulty variant of eval's return: both capture buffers are returned.
CapturedBoth(out, err) == out \o err

\* return et.stdout.String(), nil
Captured(out, err) == out

\* A faulty variant of eval's exit: the mutex is unlocked only when eval
\* returns without an error.
DeferredUnlockOnSuccess(p, r) ==
    (IF loc[p].deferFree THEN << <<"free", <<loc[p].codePtr>>, r>> >> ELSE <<>>)
        \o (IF loc[p].err = "none" THEN << <<"unlock", <<>>, "ok">> >> ELSE <<>>)

\* A faulty variant of eval's exit: the payload is freed only when it was
\* written and run, and after the unlock.
DeferredFreeAfterRun(p, r) ==
    << <<"unlock", <<>>, "ok">> >>
        \o (IF loc[p].deferFree /\ loc[p].err # "failed to write code to memory"
            THEN << <<"free", <<loc[p].codePtr>>, r>> >> ELSE <<>>)

\* The deferred calls of eval, in the order they run when it returns (last
\* deferred first): et.freeFn.Call(ctx, codePtr) once malloc has returned,
\* then et.mu.Unlock().
Deferred(p, r) ==
    (IF loc[p].deferFree THEN << <<"free", <<loc[p].codePtr>>, r>> >> ELSE <<>>)
        \o << <<"unlock", <<>>, "ok">> >>

Names(evs) == {evs[i][1] : i \in 1..Len(evs)}

\* eval leaves its critical section: after a callWithAsyncify that returned,
\* the flush and the read of the capture buffer; then, on every path (the
\* panic included), the deferred calls.
EvalExit(p) ==
    /\ pc[p] = "ev_exit"
    /\ \E r1 \in Outcome, r2 \in Outcome :
          /\ "flush" \notin Names(FinishSteps(p, r1)) => r1 = "ok"
          /\ ~loc[p].deferFree => r2 = "ok"
          /\ Perform(p, FinishSteps(p, r1) \o Deferred(p, r2), 0, Unchecked)
          /\ stdout' = stdout \o Flushed(p, FinishSteps(p, r1))
          /\ g' = [g EXCEPT ![p].emitted = @ + Len(Flushed(p, FinishSteps(p, r1)))]
          /\ loc' = [loc EXCEPT ![p].output =
                       IF "read_stdout" \in Names(FinishSteps(p, r1))
                       THEN Captured(stdout', stderr) ELSE @]
          /\ payloads' = IF "free" \in Names(Deferred(p, r2))
                         THEN payloads \ {loc[p].codePtr} ELSE payloads
          /\ mu' = IF "unlock" \in Names(Deferred(p, r2)) THEN "free" ELSE mu
    /\ pc' = [pc EXCEPT ![p] = "after_eval"]
    /\ UNCHANGED <<stderr, dataRec, gstate, fixed, files, nextId, call, ret>>

\* What eval has handed its caller: (output, nil) or ("", err).
EvalResult(p) ==
    IF loc[p].err = "none"
    THEN Result("ok", "", loc[p].output)
    ELSE Result("err", loc[p].err, <<>>)

\* The caller takes eval's result; the eval's frame is gone.
Forget(p) ==
    /\ g' = [g EXCEPT ![p] = NoRun]
    /\ trace' = [trace EXCEPT ![p] = <<>>]
    /\ failed' = [failed EXCEPT ![p] = {}]

(* ------------------------- after eval returns -------------------------- *)

\* Version: return et.eval(code)
VersionReturn(p) ==
    /\ pc[p] = "after_eval"
    /\ call[p].op = "Version"
    /\ Return(p, IF loc[p].panicking THEN Result("panic", "index out of range", <<>>)
                 ELSE EvalResult(p),
              fsInput, fsOutput)
    /\ Forget(p)
    /\ UNCHANGED <<session, files, nextId, faults, call>>

\* A faulty variant of the cleanup: the staged input is removed only when
\* eval has failed.
InputRemovalOnEvalError(p) == loc[p].staged /\ loc[p].err # "none"

\* defer os.Remove(tmpFile) is registered once the input is staged, whatever
\* the function returns afterwards.
InputRemovalDeferred(p) == loc[p].staged

\* The function returns res (or the panic goes on): the deferred
\* os.Remove of <tmpDir>/input runs.
Leave(p, res) ==
    /\ fsInput' = IF InputRemovalDeferred(p) THEN NoFile ELSE fsInput
    /\ Return(p, res, fsInput', fsOutput)

\* json.Unmarshal([]byte(output), &result); on failure the error is
\* "failed to parse JSON: %w\nOutput: %s" with the output.
Decode(output) ==
    IF JSONValid(output) THEN Result("ok", "metadata", <<>>)
    ELSE Result("err", "failed to parse JSON", output)

\* ReadMetadata: output, err := et.eval(code); if err != nil { return nil, err };
\* json.Unmarshal; return.
ReadDecode(p) ==
    /\ pc[p] = "after_eval"
    /\ call[p].op = "Read"
    /\ Leave(p, IF loc[p].panicking THEN Result("panic", "index out of range", <<>>)
                ELSE IF loc[p].err # "none" THEN EvalResult(p)
                ELSE Decode(loc[p].output))
    /\ Forget(p)
    /\ UNCHANGED <<session, fsOutput, hostfs, nextId, faults, call>>

\* A faulty variant of the comparison: the scalar is taken as a truth value,
\* so that only an empty text is a rejection.
RejectedWhenEmpty(output) == Vals(output) = <<>>

\* The comparison output == "0".
Rejected(output) == Vals(output) = <<"0">>

\* WriteMetadata: output, err := et.eval(code); on error return "failed to
\* execute write"; if output == "0" return "exiftool write failed";
\* outputData, err := os.ReadFile(tmpOutput); on error return "failed to read
\* output file"; defer os.Remove(tmpOutput).
WriteCheck(p) ==
    /\ pc[p] = "after_eval"
    /\ call[p].op = "Write"
    /\ \/ /\ loc[p].panicking
          /\ Leave(p, Result("panic", "index out of range", <<>>))
       \/ /\ ~loc[p].panicking
          /\ loc[p].err # "none"
          /\ Leave(p, Result("err", "failed to execute write", <<>>))
       \/ /\ ~loc[p].panicking
          /\ loc[p].err = "none"
          /\ Rejected(loc[p].output)
          /\ Leave(p, Result("err", "exiftool write failed", <<>>))
       \/ /\ ~loc[p].panicking
          /\ loc[p].err = "none"
          /\ ~Rejected(loc[p].output)
          /\ fsOutput = NoFile
          /\ Leave(p, Result("err", "failed to read output file", <<>>))
       \/ /\ ~loc[p].panicking
          /\ loc[p].err = "none"
          /\ ~Rejected(loc[p].output)
          /\ fsOutput # NoFile
          /\ loc' = [loc EXCEPT ![p].outputData = fsOutput]
          /\ pc' = [pc EXCEPT ![p] = "wr_dest"]
          /\ UNCHANGED <<fsInput, ret>>
    /\ Forget(p)
    /\ UNCHANGED <<session, fsOutput, hostfs, nextId, faults, call>>

\* A faulty variant of the destination: the result always goes to the source
\* path.
DestIsSource(c) == c.src

\* dest := dstPath; if dest == "" { dest = srcPath }
Dest(c) == IF c.dst = "" THEN c.src ELSE c.dst

\* os.WriteFile(dest, outputData, 0644); a failed write leaves the file
\* untouched or partly written.
WriteDest(p) ==
    /\ pc[p] = "wr_dest"
    /\ \/ /\ NoFault
          /\ hostfs' = [hostfs EXCEPT ![Dest(call[p])] = loc[p].outputData]
          /\ loc' = [loc EXCEPT ![p].wroteDest = TRUE, ![p].pending = Result("ok", "", <<>>)]
       \/ /\ Fault
          /\ \E left \in {hostfs[Dest(call[p])], Partial} :
                hostfs' = [hostfs EXCEPT ![Dest(call[p])] = left]
          /\ loc' = [loc EXCEPT ![p].wroteDest = TRUE,
                       ![p].pending = Result("err", "failed to write destination file", <<>>)]
    /\ pc' = [pc EXCEPT ![p] = "rm_output"]
    /\ UNCHANGED <<session, fsInput, fsOutput, nextId, call, g, trace, failed, ret>>

\* The deferred os.Remove(tmpOutput).
RemoveOutput(p) ==
    /\ pc[p] = "rm_output"
    /\ fsOutput' = NoFile
    /\ pc' = [pc EXCEPT ![p] = "rm_input"]
    /\ UNCHANGED <<session, fsInput, hostfs, nextId, faults, call, loc, g, trace, failed, ret>>

\* The deferred os.Remove of <tmpDir>/input, and WriteMetadata returns.
RemoveInput(p) ==
    /\ pc[p] = "rm_input"
    /\ Leave(p, loc[p].pending)
    /\ UNCHANGED <<session, fsOutput, hostfs, nextId, faults, call, g, trace, failed>>

(* ---------------------------- specification ---------------------------- *)

\* One step inside a call of caller p.
Step(p) ==
    \/ StageInput(p)
    \/ EvalEnter(p)
    \/ EvalMarshal(p)
    \/ CwLoop(p)
    \/ EvalExit(p)
    \/ VersionReturn(p)
    \/ ReadDecode(p)
    \/ WriteCheck(p)
    \/ WriteDest(p)
    \/ RemoveOutput(p)
    \/ RemoveInput(p)

Next ==
    \E p \in Callers :
        \/ Version(p)
        \/ ReadMetadata(p)
        \/ WriteMetadata(p)
        \/ SetTag(p)
        \/ Step(p)

Spec == Init /\ [][Next]_vars

\* Scheduling: a goroutine that can take a step eventually takes it, and a
\* goroutine blocked in et.mu.Lock() gets the mutex if it is free again and
\* again (sync.Mutex hands the lock to a waiter that has starved).  The
\* session is one whose guest exports zeroperl_flush, as the embedded module
\* does, so that eval makes every call it can make.
FairInit == Init /\ hasFlush = TRUE

FairSpec ==
    /\ FairInit
    /\ [][Next]_vars
    /\ \A p \in Callers : WF_vars(Step(p)) /\ SF_vars(EvalEnter(p))

(* ------------------------------ properties ----------------------------- *)

\* The positions of a caller inside eval's critical section.
InEval == {"ev_marshal", "cw_loop", "ev_exit"}

\* The calls named name in a caller's trace of boundary calls.
At(t, name) == {i \in 1..Len(t) : t[i][1] = name}

OwnText(p, text) == \A i \in 1..Len(text) : text[i].call = call[p].id

\* C1: the captured text a call gets from eval, and the text it returns to
\* its caller, holds only text the guest printed for that call; while a
\* caller is inside eval the capture buffer holds only its call's text.
InvC1 ==
    \A p \in Callers :
        /\ OwnText(p, loc[p].output)
        /\ OwnText(p, loc[p].pending.text)
        /\ OwnText(p, ret[p].res.text)
        /\ pc[p] \in InEval => OwnText(p, stdout)

\* Two calls were in flight together and each has captured text of its own.
WitC1 ==
    \E p, q \in Callers :
        /\ p # q
        /\ call[q].id < call[p].id
        /\ ret[p].res.text # <<>>
        /\ pc[q] = "after_eval"
        /\ loc[q].output # <<>>

\* The mutex is held by exactly the caller inside eval.
LockDiscipline ==
    /\ \A p \in Callers : (mu = p) <=> (pc[p] \in InEval)
    /\ (\A p \in Callers : pc[p] \notin InEval) => mu = "free"

\* C2: whenever no eval is executing the lock is free, whichever way the
\* last eval ended; and a caller waiting for the lock eventually enters
\* eval and leaves it.
LiveC2 ==
    /\ []LockDiscipline
    /\ \A p \in Callers : (pc[p] = "ev_lock") ~> (pc[p] = "after_eval")

\* An eval has ended with an error, the lock is free, and another caller is
\* waiting for it.
WitC2 ==
    \E p, q \in Callers :
        /\ p # q
        /\ pc[p] = "after_eval"
        /\ loc[p].err # "none"
        /\ mu = "free"
        /\ pc[q] = "ev_lock"

\* The allocation of a finished eval was passed to free once, after every
\* invocation and before the unlock, which is the last thing eval does.
FreedOnce(p) ==
    LET t == trace[p]
    IN  /\ Cardinality(At(t, "unlock")) = 1
        /\ t[Len(t)][1] = "unlock"
        /\ IF \E i \in At(t, "malloc") : t[i][3] = "ok"
           THEN /\ Cardinality(At(t, "free")) = 1
                /\ \A i \in At(t, "free") :
                      /\ t[i][2] = <<loc[p].codePtr>>
                      /\ \A j \in At(t, "zeroperl_eval") \cup At(t, "malloc") : j < i
                      /\ \A j \in At(t, "unlock") : i < j
           ELSE At(t, "free") = {}

\* C3: an allocation obtained by malloc is freed exactly once, after the last
\* invocation and before the unlock, however eval ends; no payload is live
\* when no eval is executing.
InvC3 ==
    /\ \A p \in Callers : pc[p] = "after_eval" => FreedOnce(p)
    /\ (\A p \in Callers : pc[p] \notin InEval) => payloads = {}
    /\ \A p \in Callers : pc[p] \in InEval => payloads \subseteq {loc[p].codePtr}

\* An eval whose payload did not fit into guest memory has ended; the
\* allocation was passed to free.
WitC3 ==
    \E p \in Callers :
        /\ pc[p] = "after_eval"
        /\ loc[p].err = "failed to write code to memory"
        /\ At(trace[p], "free") # {}
        /\ payloads = {}

\* What follows a state query in the trace t of caller p, by the state it
\* returned.
Follows(p, t, i) ==
    CASE t[i][2] = <<UNWINDING>> ->
            /\ i + 3 <= Len(t)
            /\ t[i + 1][1] = "stop_unwind"
            /\ t[i + 2][1] = "write_record"
            /\ t[i + 2][2] = <<16, 24, 1024 * 1024>>
            /\ t[i + 3][1] = "start_rewind"
            /\ t[i + 3][2] = <<16>>
            /\ i + 4 <= Len(t) => t[i + 4][1] = "zeroperl_eval"
            /\ pc[p] = "after_eval" => i + 4 <= Len(t)
      [] t[i][2] = <<NORMAL>> ->
            i < Len(t) => t[i + 1][1] \in {"flush", "read_stdout"}
      [] t[i][2] = <<REWINDING>> ->
            /\ i + 1 <= Len(t)
            /\ t[i + 1][1] = "stop_rewind"
            /\ i + 1 < Len(t) => t[i + 2][1] \in {"flush", "read_stdout"}
      [] OTHER -> TRUE

\* The trace t of caller p follows the driver protocol.
Protocol(p, t) ==
    /\ \A i \in At(t, "zeroperl_eval") :
          /\ t[i][2] = <<loc[p].codePtr, 0, 0, 0>>
          /\ (t[i][3] = "ok" /\ i < Len(t)) => t[i + 1][1] = "get_state"
    /\ \A i \in At(t, "get_state") :
          /\ i > 1 /\ t[i - 1][1] = "zeroperl_eval"
          /\ t[i][3] = "ok" => Follows(p, t, i)
    /\ \A i \in At(t, "stop_unwind") : t[i - 1] = <<"get_state", <<UNWINDING>>, "ok">>
    /\ \A i \in At(t, "write_record") : t[i - 1][1] = "stop_unwind"
    /\ \A i \in At(t, "start_rewind") : t[i - 1][1] = "write_record"
    /\ \A i \in At(t, "stop_rewind") : t[i - 1] = <<"get_state", <<REWINDING>>, "ok">>

\* The state queries of t that returned state.
Saw(t, state) == {i \in At(t, "get_state") : t[i] = <<"get_state", <<state>>, "ok">>}

\* C4: every invocation is followed by a state query; UNWINDING is followed by
\* stop-unwind, the reset of the record at 16 to {24, 1 MiB}, start-rewind
\* with 16 and an invocation with the same arguments; NORMAL ends the loop;
\* REWINDING is followed by stop-rewind and ends the loop; the loop hands
\* back the results of its last invocation; k states UNWINDING followed by a
\* NORMAL or REWINDING make k + 1 invocations.
InvC4 ==
    \A p \in Callers :
        /\ Protocol(p, trace[p])
        /\ (pc[p] = "ev_exit" /\ loc[p].err = "none" /\ ~loc[p].panicking)
              => loc[p].results = "rc"
        /\ (pc[p] = "cw_loop" /\ Saw(trace[p], UNWINDING) # {}) => dataRec = <<24, 1024 * 1024>>
        /\ ( /\ pc[p] \in {"ev_exit", "after_eval"}
             /\ Saw(trace[p], NORMAL) \cup Saw(trace[p], REWINDING) # {}
             /\ Saw(trace[p], OtherState) = {} )
           => Cardinality(At(trace[p], "zeroperl_eval"))
                = Cardinality(Saw(trace[p], UNWINDING)) + 1

\* An eval has ended whose guest unwound once and was still rewinding when
\* the replay returned.
WitC4 ==
    \E p \in Callers :
        /\ pc[p] = "after_eval"
        /\ Saw(trace[p], UNWINDING) # {}
        /\ Saw(trace[p], REWINDING) # {}
        /\ Cardinality(At(trace[p], "zeroperl_eval")) = 2

\* C5: when no call into the guest failed, what eval returns is what the
\* program printed and the results are those of the invocation on which it
\* ran to its end, however many invocations unwound before it.
InvC5 ==
    \A p \in Callers :
        ( /\ pc[p] = "after_eval"
          /\ loc[p].err = "none"
          /\ ~loc[p].panicking
          /\ failed[p] = {} )
        => /\ loc[p].output = Tag(call[p].id, g[p].want)
           /\ loc[p].results = "rc"

\* An eval whose guest unwound before it completed has returned text.
WitC5 ==
    \E p \in Callers :
        /\ pc[p] = "after_eval"
        /\ loc[p].err = "none"
        /\ failed[p] = {}
        /\ Saw(trace[p], UNWINDING) # {}
        /\ g[p].ninv > 1
        /\ loc[p].output # <<>>

\* C6: after an invocation that trapped, the caller makes no state query, no
\* handshake call and no further invocation, only eval's deferred calls, and
\* eval returns an error and no text.
InvC6 ==
    \A p \in Callers :
        \A i \in At(trace[p], "zeroperl_eval") :
            trace[p][i][3] = "trap" =>
                /\ \A j \in (i + 1)..Len(trace[p]) : trace[p][j][1] \in {"free", "unlock"}
                /\ pc[p] \in {"ev_exit", "after_eval"}
                /\ EvalResult(p) = Result("err", "eval failed", <<>>)
                /\ ~loc[p].panicking

\* An eval has ended whose replay after an unwind trapped.
WitC6 ==
    \E p \in Callers :
        /\ pc[p] = "after_eval"
        /\ Saw(trace[p], UNWINDING) # {}
        /\ \E i \in At(trace[p], "zeroperl_eval") : i > 1 /\ trace[p][i][3] = "trap"

\* C7: an eval during which a call into the guest failed does not return a
\* normal result.
InvC7 ==
    \A p \in Callers :
        (pc[p] = "after_eval" /\ ~loc[p].panicking /\ EvalResult(p).kind = "ok")
            => failed[p] = {}

\* C8: a WriteMetadata call that staged its input leaves neither
\* <tmpDir>/input nor <tmpDir>/output behind when it returns.
InvC8 ==
    \A p \in Callers :
        (pc[p] \in {"done", "panicked"} /\ call[p].op = "Write" /\ ret[p].staged)
            => ret[p].inputLeft = NoFile /\ ret[p].outputLeft = NoFile

\* C9: a ReadMetadata call that staged its input leaves no <tmpDir>/input
\* behind when it returns; it returns the metadata exactly when the captured
\* text decodes, and its decode error carries the captured text.
InvC9 ==
    \A p \in Callers :
        (pc[p] \in {"done", "panicked"} /\ call[p].op = "Read") =>
            /\ ret[p].staged => ret[p].inputLeft = NoFile
            /\ ret[p].res.kind = "ok" => JSONValid(ret[p].output)
            /\ ret[p].res.val = "failed to parse JSON" =>
                  /\ ret[p].res.kind = "err"
                  /\ ret[p].res.text = ret[p].output
                  /\ ~JSONValid(ret[p].output)
            /\ ret[p].res.text # <<>> => ret[p].res.val = "failed to parse JSON"

\* A ReadMetadata call has returned a decode error, another one an eval
\* error.
WitC9 ==
    \E p, q \in Callers :
        /\ pc[p] = "done" /\ call[p].op = "Read" /\ ret[p].staged
        /\ ret[p].res.val = "failed to parse JSON"
        /\ pc[q] = "done" /\ call[q].op = "Read" /\ ret[q].staged
        /\ ret[q].res.val = "eval failed"

\* C10: a WriteMetadata call that captured the scalar 0 returns the error
\* "exiftool write failed" and has not written its destination; a call that
\* captured 1 or 2 goes on to read the output file and write the destination.
InvC10 ==
    \A p \in Callers :
        call[p].op = "Write" =>
            /\ pc[p] \in {"wr_dest", "rm_output", "rm_input"} => ~Rejected(loc[p].output)
            /\ (pc[p] = "done" /\ Rejected(ret[p].output)) =>
                  /\ ret[p].res = Result("err", "exiftool write failed", <<>>)
                  /\ ~ret[p].wroteDest
            /\ (pc[p] = "done" /\ Vals(ret[p].output) \in {<<"1">>, <<"2">>}) =>
                  /\ ret[p].res.val # "exiftool write failed"
                  /\ ret[p].res.kind = "ok" => ret[p].wroteDest
                  /\ ret[p].res.kind = "err" =>
                        ret[p].res.val \in {"failed to read output file",
                                            "failed to write destination file"}

\* One WriteMetadata call was rejected; another, for which the guest
\* reported 2, has written its destination.
WitC10 ==
    \E p, q \in Callers :
        /\ pc[p] = "done" /\ call[p].op = "Write" /\ Rejected(ret[p].output)
        /\ ret[p].res.kind = "err"
        /\ hostfs[Dest(call[p])] = Orig(Dest(call[p]))
        /\ pc[q] = "done" /\ call[q].op = "Write" /\ Vals(ret[q].output) = <<"2">>
        /\ ret[q].res.kind = "ok" /\ ret[q].wroteDest

\* C11: a WriteMetadata call that goes on after its check holds the bytes of
\* <tmpDir>/output; when its destination write succeeds these bytes are in
\* dstPath if one was given and in srcPath if not, and no other host file has
\* changed (so a source different from the destination keeps its bytes).
ActC11 ==
    [][\A p \in Callers :
        /\ (pc[p] = "after_eval" /\ pc'[p] = "wr_dest") => loc'[p].outputData = fsOutput
        /\ (pc[p] = "wr_dest" /\ loc'[p].pending.kind = "ok") =>
              LET to == IF call[p].dst # "" THEN call[p].dst ELSE call[p].src
              IN  /\ hostfs'[to] = loc[p].outputData
                  /\ \A f \in Paths \ {to} : hostfs'[f] = hostfs[f]]_vars

\* A WriteMetadata call with a destination other than its source has just
\* written it; the source holds its original bytes.
WitC11 ==
    \E p \in Callers :
        /\ pc[p] = "rm_output"
        /\ loc[p].pending.kind = "ok"
        /\ call[p].dst # "" /\ call[p].dst # call[p].src
        /\ hostfs[call[p].dst] = loc[p].outputData
        /\ hostfs[call[p].src] = Orig(call[p].src)

\* C12: the step of a ReadMetadata, WriteMetadata or SetTag call that finds
\* its source unreadable returns the read error and changes nothing else: the
\* mutex, the guest, the capture buffers, the staged files and the host files
\* are as before and no call into the guest was made.
ActC12 ==
    [][\A p \in Callers :
        (pc[p] = "stage" /\ pc'[p] # pc[p] /\ hostfs[call[p].src] = NoFile) =>
            /\ pc'[p] = "done"
            /\ ret'[p].res.kind = "err"
            /\ ret'[p].res.val \in {"failed to read file", "failed to read source file"}
            /\ ~ret'[p].staged /\ ~ret'[p].wroteDest
            /\ UNCHANGED <<mu, stdout, stderr, dataRec, gstate, payloads>>
            /\ UNCHANGED <<fsInput, fsOutput, hostfs>>
            /\ trace'[p] = <<>> /\ trace[p] = <<>>]_vars

\* A write call on a source that does not exist has returned the read error;
\* nothing is staged and the session is idle.
WitC12 ==
    \E p \in Callers :
        /\ pc[p] = "done"
        /\ call[p].op = "Write"
        /\ hostfs[call[p].src] = NoFile
        /\ ret[p].res = Result("err", "failed to read source file", <<>>)
        /\ fsInput = NoFile /\ fsOutput = NoFile
        /\ mu = "free"

(* ------------------- a tag value through write and read ------------------ *)

\* The characters that matter to the quoting: the double quote, the
\* backslash, the single quote, and a letter for every other character.
DQ == "\""
BS == "\\"
SQ == "'"
Alphabet == {"a", SQ, BS, DQ}

MaxValueLen == 2

\* The string values a caller may pass, as sequences of characters.
TagValues == UNION {[1..n -> Alphabet] : n \in 0..MaxValueLen}

\* The tag name of the call, e.g. "Artist".
TagName == <<"t">>

\* The variables of the calls on a session, which the quoting does not touch.
calls == <<mu, stdout, stderr, dataRec, gstate, hasFlush, payloads, files,
           nextId, faults, pc, call, loc, g, trace, failed, ret>>

\* encoding/json writes a string: the double quote and the backslash get a
\* backslash in front, the single quote and letters are copied.
RECURSIVE Escaped(_)
Escaped(v) ==
    IF v = <<>> THEN <<>>
    ELSE (IF Head(v) \in {DQ, BS} THEN <<BS, Head(v)>> ELSE <<Head(v)>>)
         \o Escaped(Tail(v))

Quoted(v) == <<DQ>> \o Escaped(v) \o <<DQ>>

\* tagsJSON, err := json.Marshal(tags), for a map of one entry.
Marshal(tag, v) == <<"{">> \o Quoted(tag) \o <<":">> \o Quoted(v) \o <<"}">>

\* The statement of the generated program that carries the tags:
\* decode('%s'); with the JSON text in place of %s.
Sprintf(json) == <<"decode(", SQ>> \o json \o <<SQ, ");">>

\* Perl reads a single-quoted literal from the text after the opening quote:
\* \\ is a backslash, \' is a quote, any other backslash stays, and the
\* first quote without a backslash ends the literal.
RECURSIVE SingleQuoted(_, _)
SingleQuoted(s, acc) ==
    IF s = <<>> THEN [ok |-> FALSE, val |-> acc, rest |-> <<>>]
    ELSE IF Head(s) = SQ THEN [ok |-> TRUE, val |-> acc, rest |-> Tail(s)]
    ELSE IF Head(s) = BS /\ Len(s) >= 2 /\ s[2] \in {BS, SQ}
         THEN SingleQuoted(Tail(Tail(s)), Append(acc, s[2]))
    ELSE SingleQuoted(Tail(s), Append(acc, Head(s)))

\* The guest compiles the statement: it is well formed when the literal ends
\* at the quote that Sprintf put after the JSON text.  A literal that ends
\* earlier is followed by a letter, a quote or a backslash, i.e. by a second
\* term without an operator, which Perl rejects.
Compiled(code) ==
    LET lit == SingleQuoted(SubSeq(code, 3, Len(code)), <<>>)
    IN  [ok |-> lit.ok /\ lit.rest = <<");">>, val |-> lit.val]

\* A JSON decoder reads a string from the text after the opening quote:
\* \" and \\ stand for the second character, a backslash before anything
\* else of the alphabet is an illegal escape, a bare double quote ends it.
RECURSIVE JSONString(_, _)
JSONString(s, acc) ==
    IF s = <<>> THEN [ok |-> FALSE, val |-> acc, rest |-> <<>>]
    ELSE IF Head(s) = DQ THEN [ok |-> TRUE, val |-> acc, rest |-> Tail(s)]
    ELSE IF Head(s) = BS
         THEN IF Len(s) >= 2 /\ s[2] \in {BS, DQ}
              THEN JSONString(Tail(Tail(s)), Append(acc, s[2]))
              ELSE [ok |-> FALSE, val |-> acc, rest |-> <<>>]
    ELSE JSONString(Tail(s), Append(acc, Head(s)))

NoTags == [ok |-> FALSE, tag |-> <<>>, val |-> <<>>]

\* JSON::PP->decode and json.Unmarshal on the text of a one-entry object.
JSONObject(text) ==
    IF Len(text) < 2 \/ text[1] # "{" \/ text[2] # DQ THEN NoTags
    ELSE LET k == JSONString(SubSeq(text, 3, Len(text)), <<>>)
         IN  IF ~k.ok \/ Len(k.rest) < 2 THEN NoTags
             ELSE IF k.rest[1] # ":" \/ k.rest[2] # DQ THEN NoTags
             ELSE LET v == JSONString(SubSeq(k.rest, 3, Len(k.rest)), <<>>)
                  IN  IF v.ok /\ v.rest = <<"}">>
                      THEN [ok |-> TRUE, tag |-> k.val, val |-> v.val]
                      ELSE NoTags

\* A caller is about to write one tag value with WriteMetadata or SetTag.
TripInit ==
    /\ Constructed
    /\ hasFlush = TRUE
    /\ life = NoLife
    /\ cli = NoCli
    /\ trip \in {[pc |-> "call", op |-> o, value |-> v, text |-> <<>>,
                  tags |-> NoTags, back |-> NoTags] :
                     o \in {"WriteMetadata", "SetTag"}, v \in TagValues}

TripTo(next, text, tags, back) ==
    /\ trip' = [trip EXCEPT !.pc = next, !.text = text, !.tags = tags, !.back = back]
    /\ UNCHANGED <<calls, life, cli>>

\* tagsJSON, err := json.Marshal(tags)
TripMarshal ==
    /\ trip.pc = "call"
    /\ TripTo("marshalled", Marshal(TagName, trip.value), trip.tags, trip.back)

\* code := fmt.Sprintf(`... decode('%s'); ...`, string(tagsJSON))
TripSprintf ==
    /\ trip.pc = "marshalled"
    /\ TripTo("program", Sprintf(trip.text), trip.tags, trip.back)

\* et.eval(code): the guest compiles the program.  A program that does not
\* compile prints nothing, so output is not "0", there is no
\* <tmpDir>/output, and WriteMetadata returns "failed to read output file".
TripCompile ==
    /\ trip.pc = "program"
    /\ LET c == Compiled(trip.text)
       IN  IF c.ok THEN TripTo("literal", c.val, trip.tags, trip.back)
           ELSE TripTo("failed", trip.text, trip.tags, trip.back)

\* my $tags = JSON::PP->new->utf8->decode('...'); a text that is not JSON
\* makes the program die, with the same result as one that does not compile.
TripDecode ==
    /\ trip.pc = "literal"
    /\ LET t == JSONObject(trip.text)
       IN  IF t.ok THEN TripTo("tags", trip.text, t, trip.back)
           ELSE TripTo("failed", trip.text, trip.tags, trip.back)

\* $et->SetNewValue($tag, $tags->{$tag}) and WriteInfo: the file that
\* reaches dest holds the decoded value under the decoded tag name.
TripWriteInfo ==
    /\ trip.pc = "tags"
    /\ TripTo("written", <<>>, trip.tags, trip.back)

\* ReadMetadata on the written file: the guest prints
\* JSON::PP->new->utf8->encode(\%result) and json.Unmarshal decodes it.
TripRead ==
    /\ trip.pc = "written"
    /\ LET out == Marshal(trip.tags.tag, trip.tags.val)
       IN  TripTo("read", out, trip.tags, JSONObject(out))

TripNext ==
    \/ TripMarshal
    \/ TripSprintf
    \/ TripCompile
    \/ TripDecode
    \/ TripWriteInfo
    \/ TripRead

TripSpec == TripInit /\ [][TripNext]_vars

\* C13: a tag value that was written and read back is read as it was given.
InvC13 ==
    trip.pc = "read" => (trip.back.ok /\ trip.back.val = trip.value)

(* ------------------------ construction and Close ------------------------ *)

MaxCloses == 3

\* The scratch directory tree on the host: tmpDir, devDir, devDir+"/null",
\* and the two staged files a call may leave behind.
Scratch == {"tmp", "tmp/dev", "tmp/dev/null", "tmp/input", "tmp/output"}

\* Before NewWithContext is called.  _initialize and zeroperl_init are
\* called only if the module exports them.
Unbuilt(hasInitialize, hasPerlInit) ==
    [pc |-> "load_wasm", tree |-> {}, et |-> FALSE, runtime |-> "nil",
     mod |-> "nil", hasInitialize |-> hasInitialize, hasPerlInit |-> hasPerlInit,
     failedAt |-> "", closes |-> 0, closeRets |-> {}]

LifeInit ==
    /\ Constructed
    /\ trip = NoTrip
    /\ cli = NoCli
    /\ life \in {Unbuilt(i, z) : i \in BOOLEAN, z \in BOOLEAN}

\* A faulty variant of the removal: os.Remove, which removes an empty
\* directory only.
RemoveOnly(tree) == IF tree \subseteq {"tmp"} THEN {} ELSE tree

\* os.RemoveAll(tmpDir) removes the directory and everything below it.
RemoveAll(tree) == {}

\* A faulty variant of Close that closes the module and nothing else.
ClosedModuleOnly(l) ==
    [l EXCEPT !.mod = IF l.mod = "nil" THEN "nil" ELSE "closed"]

\* et.Close(): if et.mod != nil { et.mod.Close(et.ctx) };
\* if et.runtime != nil { et.runtime.Close(et.ctx) };
\* if et.tmpDir != "" { os.RemoveAll(et.tmpDir) }.  Closing the runtime
\* closes every module instantiated in it; no field is reset.
Closed(l) ==
    [l EXCEPT !.mod = IF l.mod = "nil" THEN "nil" ELSE "closed",
              !.runtime = IF l.runtime = "nil" THEN "nil" ELSE "closed",
              !.tree = IF l.et THEN RemoveAll(l.tree) ELSE l.tree]

\* return nil, fmt.Errorf(...) from the named construction step.
ReturnErr(l, step) == [l EXCEPT !.pc = "returned_err", !.failedAt = step]

LifeTo(l) == life' = l /\ UNCHANGED <<calls, trip, cli>>

\* wasmBytes, err := wasmFS.ReadFile("wasm/exiftool.wasm")
LoadWasm ==
    /\ life.pc = "load_wasm"
    /\ \/ LifeTo([life EXCEPT !.pc = "mkdir_temp"])
       \/ LifeTo(ReturnErr(life, "load_wasm"))

\* tmpDir, err := os.MkdirTemp("", "exiftool-go-*")
MkdirTemp ==
    /\ life.pc = "mkdir_temp"
    /\ \/ LifeTo([life EXCEPT !.pc = "mkdir_dev", !.tree = {"tmp"}])
       \/ LifeTo(ReturnErr(life, "mkdir_temp"))

\* os.MkdirAll(devDir, 0755); on error os.RemoveAll(tmpDir) and return.
MkdirDev ==
    /\ life.pc = "mkdir_dev"
    /\ \/ LifeTo([life EXCEPT !.pc = "write_null", !.tree = @ \cup {"tmp/dev"}])
       \/ LifeTo(ReturnErr([life EXCEPT !.tree = RemoveAll(@)], "mkdir_dev"))

\* os.WriteFile(devDir+"/null", ...); on error os.RemoveAll(tmpDir) and
\* return.  The failed write may have created the file.
WriteDevNull ==
    /\ life.pc = "write_null"
    /\ \/ LifeTo([life EXCEPT !.pc = "new_runtime", !.tree = @ \cup {"tmp/dev/null"}])
       \/ \E left \in {life.tree, life.tree \cup {"tmp/dev/null"}} :
             LifeTo(ReturnErr([life EXCEPT !.tree = RemoveAll(left)], "write_null"))

\* et := &ExifTool{...}; et.runtime = wazero.NewRuntime(ctx);
\* wasi_snapshot_preview1.MustInstantiate(ctx, et.runtime), which panics
\* instead of returning an error.
NewRuntime ==
    /\ life.pc = "new_runtime"
    /\ \/ LifeTo([life EXCEPT !.pc = "env", !.et = TRUE, !.runtime = "open"])
       \/ LifeTo([life EXCEPT !.pc = "panicked", !.et = TRUE, !.runtime = "open",
                              !.failedAt = "wasi"])

\* et.runtime.NewHostModuleBuilder("env")...Instantiate(ctx); on error
\* et.Close() and return.
EnvModule ==
    /\ life.pc = "env"
    /\ \/ LifeTo([life EXCEPT !.pc = "instantiate"])
       \/ LifeTo(ReturnErr(Closed(life), "env"))

\* et.mod, err = et.runtime.InstantiateWithConfig(ctx, wasmBytes, config);
\* on error et.mod is nil, et.Close() and return.
Instantiate ==
    /\ life.pc = "instantiate"
    /\ \/ LifeTo([life EXCEPT !.pc = "record", !.mod = "open"])
       \/ LifeTo(ReturnErr(Closed(life), "instantiate"))

\* if !mem.Write(dataAddr, dataBuffer) { et.Close(); return ... }
WriteRecord ==
    /\ life.pc = "record"
    /\ \/ LifeTo([life EXCEPT !.pc = "initialize"])
       \/ LifeTo(ReturnErr(Closed(life), "record"))

\* if initFn := et.mod.ExportedFunction("_initialize"); initFn != nil {
\*     if _, err := initFn.Call(ctx); err != nil { et.Close(); return ... } }
Initialize ==
    /\ life.pc = "initialize"
    /\ \/ LifeTo([life EXCEPT !.pc = "perl_init"])
       \/ /\ life.hasInitialize
          /\ LifeTo(ReturnErr(Closed(life), "initialize"))

\* if perlInitFn := ...("zeroperl_init"); perlInitFn != nil {
\*     if _, err := et.callWithAsyncify(perlInitFn); err != nil {
\*         et.Close(); return ... } }
\* callWithAsyncify returns, returns an error, or panics at its index of a
\* nil state result.
PerlInit ==
    /\ life.pc = "perl_init"
    /\ \/ LifeTo([life EXCEPT !.pc = "ready"])
       \/ /\ life.hasPerlInit
          /\ \/ LifeTo(ReturnErr(Closed(life), "perl_init"))
             \/ LifeTo([life EXCEPT !.pc = "panicked", !.failedAt = "perl_init"])

\* Calls on the session before it is closed: a failed staging write and a
\* failed write call can leave <tmpDir>/input and <tmpDir>/output behind.
Use ==
    /\ life.pc = "ready"
    /\ life.closes = 0
    /\ \E left \in (SUBSET {"tmp/input", "tmp/output"}) \ {{}} :
          /\ ~(left \subseteq life.tree)
          /\ LifeTo([life EXCEPT !.tree = @ \cup left])

\* func (et *ExifTool) Close() error { ...; return nil }
Close ==
    /\ life.pc = "ready"
    /\ life.closes < MaxCloses
    /\ LifeTo([Closed(life) EXCEPT !.closes = @ + 1, !.closeRets = @ \cup {"nil"}])

LifeNext ==
    \/ LoadWasm
    \/ MkdirTemp
    \/ MkdirDev
    \/ WriteDevNull
    \/ NewRuntime
    \/ EnvModule
    \/ Instantiate
    \/ WriteRecord
    \/ Initialize
    \/ PerlInit
    \/ Use
    \/ Close

LifeSpec == LifeInit /\ [][LifeNext]_vars

\* C14: every Close returns nil, and once Close has run on a session, on its
\* own or inside a construction that failed after the session value was
\* made, no part of the scratch directory tree exists.
InvC14 ==
    /\ life.pc # "none" => life.closeRets \subseteq {"nil"}
    /\ (life.pc = "ready" /\ life.closes >= 1) => life.tree = {}
    /\ (life.pc = "returned_err" /\ life.et) => life.tree = {}

\* Close has returned for the second time; both calls returned nil and
\* nothing of the session is left.
WitC14 ==
    /\ life.pc = "ready"
    /\ life.closes = 2
    /\ life.closeRets = {"nil"}
    /\ life.tree = {}
    /\ life.mod = "closed" /\ life.runtime = "closed"

\* C15: when NewWithContext has returned an error there is no scratch
\* directory and neither the runtime nor the module is open.
InvC15 ==
    life.pc = "returned_err" =>
        /\ life.tree = {}
        /\ life.runtime # "open"
        /\ life.mod # "open"

\* zeroperl_init failed: the module and the runtime it ran in are closed and
\* the scratch directory is gone.
WitC15 ==
    /\ life.pc = "returned_err"
    /\ life.failedAt = "perl_init"
    /\ life.mod = "closed" /\ life.runtime = "closed"
    /\ life.tree = {}

\* C16: when eval returns a text, the text is what the guest handed to
\* standard output during this call, in order: every piece of it was printed
\* by this call's program, none during construction or by an earlier call,
\* and none of it is on standard error.
ActC16 ==
    [][\A p \in Callers :
        (/\ pc[p] = "ev_exit" /\ pc'[p] = "after_eval"
         /\ loc'[p].err = "none" /\ ~loc'[p].panicking) =>
            /\ loc'[p].output = Tag(call[p].id, SubSeq(g'[p].want, 1, g'[p].emitted))
            /\ \A i \in 1..Len(loc'[p].output) :
                  /\ loc'[p].output[i].call = call[p].id
                  /\ loc'[p].output[i].val # "init"
                  /\ \A j \in 1..Len(stderr) : loc'[p].output[i] # stderr[j]]_vars

\* The second call on the session has its text from eval while standard
\* error holds a warning of the same call.
WitC16 ==
    \E p \in Callers :
        /\ pc[p] = "after_eval"
        /\ call[p].id = 2
        /\ loc[p].err = "none"
        /\ loc[p].output # <<>>
        /\ stderr # <<>>
        /\ stderr[1].call = call[p].id

\* C17: the control record always holds a first word below its second, and
\* a payload that eval has written and handed to the guest shares no address
\* with the control record or with the scratch buffer behind it, whatever
\* address malloc returned.
InvC17 ==
    /\ dataRec[1] < dataRec[2]
    /\ \A p \in Callers :
          pc[p] = "cw_loop" =>
              \/ loc[p].codePtr + PayloadLen(call[p].op) <= dataAddr
              \/ loc[p].codePtr >= dataEnd

\* C18: when eval is about to invoke zeroperl_eval for the first time in a
\* call, both capture buffers are empty and the control record holds the
\* bounds it was given when the session was built.
InvC18 ==
    \A p \in Callers :
        (pc[p] = "cw_loop" /\ g[p].ninv = 0) =>
            /\ stdout = <<>>
            /\ stderr = <<>>
            /\ dataRec = InitialRecord

InvC20 ==
    \A p \in Callers :
        (pc[p] = "cw_loop" /\ loc[p].staged) => fsInput = loc[p].data

(* ------------------- Close while a call is in flight -------------------- *)

\* The session value NewWithContext returns: the scratch tree made, the
\* runtime and the module open.
Built ==
    [Unbuilt(TRUE, TRUE) EXCEPT !.pc = "ready", !.et = TRUE,
                                !.tree = {"tmp", "tmp/dev", "tmp/dev/null"},
                                !.runtime = "open", !.mod = "open"]

CloseInit == Constructed /\ trip = NoTrip /\ life = Built /\ cli = NoCli

\* The scratch tree that goes with the staged files of the calls.
TreeOf(tree, input, output) ==
    tree \cup (IF input # NoFile THEN {"tmp/input"} ELSE {})
         \cup (IF output # NoFile THEN {"tmp/output"} ELSE {})

\* Another goroutine calls et.Close() on the session in use.  Close does not
\* take et.mu: it closes the module and the runtime and removes tmpDir, the
\* staged files with it, wherever the calls on the session stand.
CloseInFlight ==
    /\ life.pc = "ready"
    /\ life.closes < MaxCloses
    /\ life' = [Closed([life EXCEPT !.tree = TreeOf(@, fsInput, fsOutput)])
                   EXCEPT !.closes = @ + 1, !.closeRets = @ \cup {"nil"}]
    /\ fsInput' = NoFile
    /\ fsOutput' = NoFile
    /\ UNCHANGED <<mu, stdout, stderr, dataRec, gstate, hasFlush, payloads, hostfs,
                   nextId, faults, pc, call, loc, g, trace, failed, ret, trip, cli>>

\* One goroutine makes calls on the session until it is closed; what a call
\* does on a closed session is not followed.
CloseNext ==
    \/ /\ life.closes = 0
       /\ \E p \in {"c1"} :
             \/ Version(p)
             \/ ReadMetadata(p)
             \/ WriteMetadata(p)
             \/ SetTag(p)
             \/ Step(p)
    \/ CloseInFlight

CloseSpec == CloseInit /\ [][CloseNext]_vars

\* C21: when Close has torn the session down, no eval on it holds the
\* session lock.
InvC21 ==
    (life.pc = "ready" /\ life.closes >= 1) =>
        /\ mu = "free"
        /\ \A p \in Callers : pc[p] \notin InEval

\* C22: a WriteMetadata call that has written its destination had the scalar
\* 1 or 2 from the guest, and the bytes it wrote are the ones the guest put
\* in <tmpDir>/output for this call.
InvC22 ==
    \A p \in Callers :
        (pc[p] = "rm_output" /\ loc[p].pending.kind = "ok") =>
            /\ Vals(loc[p].output) \in {<<"1">>, <<"2">>}
            /\ loc[p].outputData = OutBytes(call[p].id)

\* C23: callWithAsyncify has returned without an error only after a state
\* query that reported NORMAL or REWINDING, and every invocation after the
\* first comes right after stop-unwind, the reset of the record and
\* start-rewind, whatever state value the guest reported.
InvC23 ==
    \A p \in Callers :
        LET t == trace[p]
        IN  /\ (pc[p] = "ev_exit" /\ loc[p].err = "none" /\ ~loc[p].panicking) =>
                  \E i \in Saw(t, NORMAL) \cup Saw(t, REWINDING) :
                      \A j \in At(t, "get_state") : j <= i
            /\ \A i \in At(t, "zeroperl_eval") :
                  (\E j \in At(t, "zeroperl_eval") : j < i) =>
                      /\ t[i - 1][1] = "start_rewind"
                      /\ t[i - 2][1] = "write_record"
                      /\ t[i - 3][1] = "stop_unwind"
                      /\ t[i - 4] = <<"get_state", <<UNWINDING>>, "ok">>

\* The program text after the literal that carries the tags.
Outside(code) == SingleQuoted(SubSeq(code, 3, Len(code)), <<>>).rest

\* C24: the program made for a tag value has, outside its literal, the text
\* the program for the empty value has, and its literal decodes in the guest
\* to the tag and the value the caller passed.
InvC24 ==
    trip.pc = "program" =>
        /\ Outside(trip.text) = Outside(Sprintf(Marshal(TagName, <<>>)))
        /\ Compiled(trip.text).ok
        /\ JSONObject(Compiled(trip.text).val) =
              [ok |-> TRUE, tag |-> TagName, val |-> trip.value]

(* ----------------------- the command line program ----------------------- *)

MaxArgs == 3

\* The file arguments: flag.Args().
FileNames == {"x", "y"}

ArgLists == UNION {[1..n -> FileNames] : n \in 0..MaxArgs}

\* How et.ReadMetadata(filePath) can end: a map, an error, or the panic out
\* of callWithAsyncify.
ReadOutcomes == {"ok", "err", "panic"}

\* The program after flag.Parse(): the flags -version and -json and the
\* file arguments.
Started(showVer, jsonOutput, args) ==
    [pc |-> "parsed", showVer |-> showVer, jsonOutput |-> jsonOutput, args |-> args,
     i |-> 1, built |-> "none", outcomes |-> <<>>, allResults |-> <<>>,
     printed |-> <<>>, errs |-> <<>>, emitted |-> <<>>, encoded |-> FALSE,
     closed |-> FALSE, exit |-> -1]

CliInit ==
    /\ Constructed
    /\ trip = NoTrip
    /\ life = NoLife
    /\ cli \in {Started(v, j, a) : v \in BOOLEAN, j \in BOOLEAN, a \in ArgLists}

CliTo(c) == cli' = c /\ UNCHANGED <<calls, trip, life>>

\* os.Exit(code), or the return from main.
Exited(c, code) == [c EXCEPT !.pc = "exited", !.exit = code]

\* if *showVer { ... }; if flag.NArg() < 1 { flag.Usage(); os.Exit(1) }
CliParse ==
    /\ cli.pc = "parsed"
    /\ IF cli.showVer THEN CliTo([cli EXCEPT !.pc = "version"])
       ELSE IF Len(cli.args) < 1
            THEN CliTo(Exited([cli EXCEPT !.errs = Append(@, "usage")], 1))
       ELSE CliTo([cli EXCEPT !.pc = "new"])

\* The version mode: et, err := exiftool.New(); on error print it and
\* os.Exit(1); etVer, _ := et.Version(); et.Close(); fmt.Printf(...); return
CliVersion ==
    /\ cli.pc = "version"
    /\ \/ CliTo(Exited([cli EXCEPT !.built = "err", !.errs = Append(@, "Error")], 1))
       \/ CliTo(Exited([cli EXCEPT !.built = "ok", !.closed = TRUE,
                                   !.printed = Append(@, "version")], 0))

\* et, err := exiftool.New(); on error print it and os.Exit(1);
\* defer et.Close()
CliNew ==
    /\ cli.pc = "new"
    /\ \/ CliTo(Exited([cli EXCEPT !.built = "err", !.errs = Append(@, "Error")], 1))
       \/ CliTo([cli EXCEPT !.pc = "loop", !.built = "ok"])

\* A faulty variant of the loop: an error ends it.
BreakOnError(c, out) == IF out = "err" THEN Len(c.args) + 1 ELSE c.i + 1

\* for _, filePath := range flag.Args(): the index after a file that was
\* read (out = "ok") or not (continue).
NextArg(c, out) == c.i + 1

\* One round of the loop: metadata, err := et.ReadMetadata(filePath); on
\* error print it to standard error and continue; otherwise append the
\* metadata to allResults (-json) or print it.  A panic runs the deferred
\* et.Close() and ends the program with exit code 2.
CliRead ==
    /\ cli.pc = "loop"
    /\ cli.i <= Len(cli.args)
    /\ \E out \in ReadOutcomes :
          LET f == cli.args[cli.i]
              c == [cli EXCEPT !.outcomes = Append(@, out)]
          IN  CASE out = "panic" -> CliTo(Exited([c EXCEPT !.closed = TRUE], 2))
                [] out = "err" ->
                      CliTo([c EXCEPT !.errs = Append(@, f), !.i = NextArg(cli, out)])
                [] out = "ok" /\ cli.jsonOutput ->
                      CliTo([c EXCEPT !.allResults = Append(@, f), !.i = NextArg(cli, out)])
                [] out = "ok" /\ ~cli.jsonOutput ->
                      CliTo([c EXCEPT !.printed = Append(@, f), !.i = NextArg(cli, out)])

\* if *jsonOutput && len(allResults) > 0 { encoder.Encode(allResults) };
\* main returns: the deferred et.Close() runs and the exit code is 0.
CliFinish ==
    /\ cli.pc = "loop"
    /\ cli.i > Len(cli.args)
    /\ LET enc == cli.jsonOutput /\ Len(cli.allResults) > 0
       IN  CliTo(Exited([cli EXCEPT !.encoded = enc,
                                    !.emitted = IF enc THEN cli.allResults ELSE <<>>,
                                    !.closed = TRUE], 0))

CliNext ==
    \/ CliParse
    \/ CliVersion
    \/ CliNew
    \/ CliRead
    \/ CliFinish

CliSpec == CliInit /\ [][CliNext]_vars

\* The files among the first Len(outs) of args whose outcome is kind, in
\* argument order.
RECURSIVE Those(_, _, _)
Those(args, outs, kind) ==
    IF outs = <<>> THEN <<>>
    ELSE (IF Head(outs) = kind THEN <<Head(args)>> ELSE <<>>)
         \o Those(Tail(args), Tail(outs), kind)

\* The batch part of C25: a failed construction exits with 1; each file
\* that ReadMetadata returned an error for is named on standard error and
\* the loop goes on; a program that exits with 0 has called ReadMetadata on
\* every argument; with -json the array holds the files read, in order.
Batch ==
    /\ (cli.pc = "exited" /\ cli.built = "err") => cli.exit = 1
    /\ (cli.pc \in {"loop", "exited"} /\ ~cli.showVer /\ cli.built = "ok") =>
          /\ cli.errs = Those(cli.args, cli.outcomes, "err")
          /\ cli.allResults \o cli.printed = Those(cli.args, cli.outcomes, "ok")
          /\ cli.pc = "loop" => Len(cli.outcomes) = cli.i - 1
          /\ cli.exit = 0 =>
                /\ Len(cli.outcomes) = Len(cli.args)
                /\ cli.encoded <=> (cli.jsonOutput /\ Those(cli.args, cli.outcomes, "ok") # <<>>)
                /\ cli.encoded => cli.emitted = Those(cli.args, cli.outcomes, "ok")
          /\ cli.exit \in {-1, 0} \/ (cli.exit = 2 /\ "panic" \in {cli.outcomes[k] : k \in 1..Len(cli.outcomes)})

====
